---- MODULE Spec2Model ----
(***************************************************************************)
(* A model of bowtie/_commands.py: the command codec (to_request /         *)
(* from_response), the Run response decoding into case outcomes, the       *)
(* per-test result decoding, compare()/unsuccessful() and the Unsuccessful *)
(* tally.                                                                  *)
(*                                                                         *)
(* Python values are encoded as follows.  The JSON scalars true, false and *)
(* null are the strings "True", "False" and "None"; a dict (and a keyword  *)
(* argument mapping) is a function whose DOMAIN is its key set; a list is  *)
(* a sequence; an attrs instance is a record with a "kind" field naming    *)
(* its class.  An exception is the name of its class.                      *)
(***************************************************************************)
EXTENDS Integers, Sequences, FiniteSets, TLC

VARIABLES
    pc,         \* position of the stream's exchange
    cmd,        \* name of the command being exchanged
    tc,         \* the TestCase being run, <<>> when none
    request,    \* what to_request returned, <<>> when nothing was returned
    raw,        \* the response bytes handed to from_response
    calls,      \* the calls made to validate by the last codec operation
    error,      \* the exception the last operation raised, "None" when none
    response,   \* what from_response returned
    outcome,    \* the case outcome (AnyCaseResult) of a Run exchange
    data,       \* a per-test payload given to TestResult.from_dict
    result,     \* what TestResult.from_dict returned for data
    delivered,  \* the tallies folded into the run-level summary, in order
    summary     \* the run-level Unsuccessful summary

vars == <<pc, cmd, tc, request, raw, calls, error, response, outcome,
          data, result, delivered, summary>>

exchangeVars == <<pc, cmd, tc, request, raw, calls, error, response, outcome>>

(***************************************************************************)
(* Bounds of the model.                                                    *)
(***************************************************************************)
MaxCaseTests == 2   \* tests of a TestCase that is sent
MaxResults == 3     \* per-test results of a response, and expected values
MaxCases == 3       \* case outcomes folded into one run-level summary
MaxFoldTests == 2   \* tests of a case outcome whose tally is folded

(***************************************************************************)
(* Python values.                                                          *)
(***************************************************************************)
True == "True"
False == "False"
None == "None"

JsonBool == {True, False}

\* The empty dict, and the empty keyword mapping.
EmptyDict == <<>>

\* No value: the operation raised, or has not run.
Unset == [kind |-> "unset"]

\* Python truthiness of an optional JSON boolean.
Truthy(v) == v = True

\* d restricted to the keys in S.
Restrict(d, S) == [k \in S |-> d[k]]

\* dict.get / dict.pop with a default.
Get(d, k, default) == IF k \in DOMAIN d THEN d[k] ELSE default

\* A call f(**kwargs) of a callable whose keyword parameters are `required`
\* and `optional` binds: no unexpected keyword, no missing argument.
Binds(kwargs, required, optional) ==
    /\ required \subseteq DOMAIN kwargs
    /\ DOMAIN kwargs \subseteq (required \cup optional)

Min(a, b) == IF a < b THEN a ELSE b

\* All sequences over S of length at most n.
SeqsUpTo(S, n) == UNION {[1..m -> S] : m \in 0..n}

\* An optional item: <<>> when absent, <<v>> when present; as a dict entry.
Maybe(S) == {<<>>} \cup {<<v>> : v \in S}

Entry(k, o) == IF o = <<>> THEN EmptyDict ELSE (k :> o[1])

(***************************************************************************)
(* Unsuccessful                                                            *)
(***************************************************************************)
Unsuccessful(failed, errored, skipped) ==
    [failed |-> failed, errored |-> errored, skipped |-> skipped]

Zero == Unsuccessful(0, 0, 0)

Unsuccessful_add_swapped(self, other) ==
    Unsuccessful(self.failed + other.errored,
                 self.errored + other.failed,
                 self.skipped + other.skipped)

Unsuccessful_add(self, other) ==
    Unsuccessful(self.failed + other.failed,
                 self.errored + other.errored,
                 self.skipped + other.skipped)

total(self) == self.errored + self.failed + self.skipped

(***************************************************************************)
(* Test and TestCase                                                       *)
(***************************************************************************)
Tests ==
    [description : {"d1", "d2"}, instance : {"i"},
     comment : {None, "c"}, valid : {True, False, None}]

Registries == {EmptyDict, [uri |-> [contents |-> "s"]]}

TestCases ==
    [description : {"case"}, schema : {"schema"},
     tests : SeqsUpTo(Tests, MaxCaseTests),
     comment : {None, "c"}, registry : Registries]

\* attrs.asdict of a Test under TestCase.serializable's filter, which asdict
\* hands down to nested instances.
Test_asdict(test) ==
    Restrict(test, {k \in DOMAIN test :
                      k # "registry" /\ (k # "comment" \/ test[k] # None)})

serializable(self) ==
    LET kept == {k \in DOMAIN self :
                   k # "registry" /\ (k # "comment" \/ self[k] # None)}
        as_dict == [k \in kept |->
                      IF k = "tests"
                      THEN [i \in 1..Len(self.tests) |-> Test_asdict(self.tests[i])]
                      ELSE self[k]]
    IN  IF DOMAIN self.registry # {}
        THEN as_dict @@
             [registry |-> [k \in DOMAIN self.registry |-> self.registry[k].contents]]
        ELSE as_dict

without_expected_results_keeping_valid(self) ==
    LET s == serializable(self)
    IN  [k \in DOMAIN s |->
           IF k = "tests"
           THEN [i \in 1..Len(s.tests) |->
                   Restrict(s.tests[i],
                            {j \in DOMAIN s.tests[i] :
                               j # "comment" \/ s.tests[i][j] # None})]
           ELSE s[k]]

without_expected_results(self) ==
    LET s == serializable(self)
    IN  [k \in DOMAIN s |->
           IF k = "tests"
           THEN [i \in 1..Len(s.tests) |->
                   Restrict(s.tests[i],
                            {j \in DOMAIN s.tests[i] :
                               j # "valid" /\ (j # "comment" \/ s.tests[i][j] # None)})]
           ELSE s[k]]

(***************************************************************************)
(* Per-test results                                                        *)
(***************************************************************************)
TestResult(valid) ==
    [kind |-> "TestResult", valid |-> valid, errored |-> FALSE, skipped |-> FALSE]

SkippedTest(message, issue_url) ==
    [kind |-> "SkippedTest", message |-> message, issue_url |-> issue_url,
     errored |-> FALSE, skipped |-> TRUE]

ErroredTest(context) ==
    [kind |-> "ErroredTest", context |-> context, errored |-> TRUE, skipped |-> FALSE]

in_skipped_case == SkippedTest("All tests in this test case were skipped.", None)

in_errored_case == ErroredTest([message |-> "All tests in this test case errored."])

\* What a call returns: ok with its value, or the exception it raised.
Returned(value) == [ok |-> TRUE, value |-> value, error |-> None]

Raised(exception) == [ok |-> FALSE, value |-> Unset, error |-> exception]

\* TestResult.from_dict: data.pop("skipped", False), then data.pop("errored",
\* False), each branch handing the keys still in data to the constructor.
\* SkippedTest takes message and issue_url; ErroredTest takes context and
\* skipped (its skipped attribute is annotated, so it is an init argument).
TestResult_from_dict(d) ==
    LET popped == Restrict(d, DOMAIN d \ {"skipped"})
        rest == Restrict(d, DOMAIN d \ {"skipped", "errored"})
    IN  IF Truthy(Get(d, "skipped", False))
        THEN IF Binds(popped, {}, {"message", "issue_url"})
             THEN Returned(SkippedTest(Get(popped, "message", None),
                                       Get(popped, "issue_url", None)))
             ELSE Raised("TypeError")
        ELSE IF Truthy(Get(popped, "errored", False))
        THEN IF Binds(rest, {}, {"context", "skipped"})
             THEN Returned(ErroredTest(Get(rest, "context", EmptyDict)))
             ELSE Raised("TypeError")
        ELSE IF "valid" \in DOMAIN d
        THEN Returned(TestResult(d.valid))
        ELSE Raised("KeyError")

(***************************************************************************)
(* Case outcomes                                                           *)
(***************************************************************************)
\* CaseResult.compare: zip(results, expected) stops at the shorter list.
compare_null_mismatches(self) ==
    [i \in 1..Min(Len(self.results), Len(self.expected)) |->
       LET test == self.results[i]
           expected == self.expected[i]
       IN  <<test, /\ ~test.skipped
                   /\ ~test.errored
                   /\ expected # test.valid>>]

compare(self) ==
    [i \in 1..Min(Len(self.results), Len(self.expected)) |->
       LET test == self.results[i]
           expected == self.expected[i]
       IN  <<test, /\ ~test.skipped
                   /\ ~test.errored
                   /\ expected # None
                   /\ expected # test.valid>>]

\* The loop of CaseResult.unsuccessful.  Its for statement binds the name
\* `failed` to each pair's flag, the name that also holds the count: a bool is
\* an int, so the flag is 0 or 1 and `failed += 1` makes 2 of a True flag.
RECURSIVE unsuccessful_loop(_, _, _, _, _)
unsuccessful_loop(pairs, i, skipped, errored, failed) ==
    IF i > Len(pairs)
    THEN Unsuccessful(failed, errored, skipped)
    ELSE LET test == pairs[i][1]
             bound == IF pairs[i][2] THEN 1 ELSE 0
         IN  IF test.skipped
             THEN unsuccessful_loop(pairs, i + 1, skipped + 1, errored, bound)
             ELSE IF test.errored
             THEN unsuccessful_loop(pairs, i + 1, skipped, errored + 1, bound)
             ELSE IF bound # 0
             THEN unsuccessful_loop(pairs, i + 1, skipped, errored, bound + 1)
             ELSE unsuccessful_loop(pairs, i + 1, skipped, errored, bound)

CaseResult_unsuccessful(self) == unsuccessful_loop(compare(self), 1, 0, 0, 0)

\* CaseResult.failed
CaseResult_failed(self) ==
    \E i \in 1..Len(compare(self)) : compare(self)[i][2]

\* CaseErrored.__attrs_post_init__ and CaseSkipped.__attrs_post_init__
CaseErrored_post_init_empty(expected) == <<>>

CaseErrored_post_init(expected) == [i \in 1..Len(expected) |-> in_errored_case]

CaseSkipped_post_init(expected) == [i \in 1..Len(expected) |-> in_skipped_case]

\* The attrs-generated constructors, called with keyword arguments.
CaseResult(kwargs) ==
    IF Binds(kwargs, {"implementation", "seq", "results", "expected"}, {})
    THEN Returned([kind |-> "CaseResult",
                   implementation |-> kwargs.implementation,
                   seq |-> kwargs.seq,
                   results |-> kwargs.results,
                   expected |-> kwargs.expected])
    ELSE Raised("TypeError")

CaseErrored(kwargs) ==
    IF Binds(kwargs, {"expected", "implementation", "seq", "context"}, {"caught"})
    THEN Returned([kind |-> "CaseErrored",
                   expected |-> kwargs.expected,
                   results |-> CaseErrored_post_init(kwargs.expected),
                   implementation |-> kwargs.implementation,
                   seq |-> kwargs.seq,
                   context |-> kwargs.context,
                   caught |-> Get(kwargs, "caught", TRUE)])
    ELSE Raised("TypeError")

CaseSkipped(kwargs) ==
    IF Binds(kwargs, {"implementation", "seq", "expected"}, {"message", "issue_url"})
    THEN Returned([kind |-> "CaseSkipped",
                   implementation |-> kwargs.implementation,
                   seq |-> kwargs.seq,
                   expected |-> kwargs.expected,
                   results |-> CaseSkipped_post_init(kwargs.expected),
                   message |-> Get(kwargs, "message", None),
                   issue_url |-> Get(kwargs, "issue_url", None)])
    ELSE Raised("TypeError")

CaseErrored_uncaught(implementation, seq, expected, context) ==
    CaseErrored([implementation |-> implementation, seq |-> seq, caught |-> FALSE,
                 expected |-> expected, context |-> context])

CaseErrored_unsuccessful(self) == Unsuccessful(0, Len(self.results), 0)

CaseSkipped_unsuccessful(self) == Unsuccessful(0, 0, Len(self.results))

\* unsuccessful() of any case outcome.
unsuccessful(self) ==
    CASE self.kind = "CaseResult" -> CaseResult_unsuccessful(self)
      [] self.kind = "CaseErrored" -> CaseErrored_unsuccessful(self)
      [] self.kind = "CaseSkipped" -> CaseSkipped_unsuccessful(self)

\* CaseResult.from_dict(data, implementation=..., expected=...): the first
\* per-test payload that fails to decode raises out of the comprehension.
CaseResult_from_dict(d, kwargs) ==
    IF "results" \notin DOMAIN d
    THEN Raised("KeyError")
    ELSE LET decoded == [i \in 1..Len(d.results) |-> TestResult_from_dict(d.results[i])]
             bad == {i \in 1..Len(decoded) : ~decoded[i].ok}
             first == CHOOSE i \in bad : \A j \in bad : i <= j
             others == Restrict(d, DOMAIN d \ {"results"})
         IN  IF bad # {}
             THEN Raised(decoded[first].error)
             ELSE IF DOMAIN others \cap (DOMAIN kwargs \cup {"results"}) # {}
             THEN Raised("TypeError")
             ELSE CaseResult([results |-> [i \in 1..Len(decoded) |-> decoded[i].value]]
                             @@ others @@ kwargs)

\* _case_result(errored=False, skipped=False, **response): the callable it
\* returns, as the name of the class it builds and the keywords it closes over.
case_result_skipped_first(instance) ==
    [kind |-> "closure",
     fn |-> IF Truthy(Get(instance, "skipped", False)) THEN "CaseSkipped"
            ELSE IF Truthy(Get(instance, "errored", False)) THEN "CaseErrored"
            ELSE "CaseResult",
     response |-> Restrict(instance, DOMAIN instance \ {"errored", "skipped"})]

case_result(instance) ==
    [kind |-> "closure",
     fn |-> IF Truthy(Get(instance, "errored", False)) THEN "CaseErrored"
            ELSE IF Truthy(Get(instance, "skipped", False)) THEN "CaseSkipped"
            ELSE "CaseResult",
     response |-> Restrict(instance, DOMAIN instance \ {"errored", "skipped"})]

\* The call of that callable with (implementation, expected).
apply_case_result(closure, implementation, expected) ==
    LET kwargs == [implementation |-> implementation, expected |-> expected]
    IN  CASE closure.fn = "CaseResult" ->
               CaseResult_from_dict(closure.response, kwargs)
          [] closure.fn \in {"CaseErrored", "CaseSkipped"} ->
               IF DOMAIN closure.response \cap DOMAIN kwargs # {}
               THEN Raised("TypeError")
               ELSE IF closure.fn = "CaseErrored"
               THEN CaseErrored(kwargs @@ closure.response)
               ELSE CaseSkipped(kwargs @@ closure.response)

(***************************************************************************)
(* The command codec                                                       *)
(***************************************************************************)
\* The version START_V1 asks for, the one VersionMismatch.check accepts.
ProtocolVersion == 1

Start(version) == [kind |-> "Start", version |-> version]

START_V1 == Start(ProtocolVersion)

Dialect(dialect) == [kind |-> "Dialect", dialect |-> dialect]

Run(seq, case) == [kind |-> "Run", seq |-> seq, case |-> case]

STOP == [kind |-> "Stop"]

\* re.sub(r"([a-z])([A-Z])", r"\1-\2", cls.__name__).lower() on the four
\* command classes, none of which has an inner capital.
CommandName(cls) ==
    CASE cls = "Start" -> "start"
      [] cls = "Dialect" -> "dialect"
      [] cls = "Run" -> "run"
      [] cls = "Stop" -> "stop"

\* {"$ref": uri} and {"$ref": f"{uri}#response"}, the uri standing as its name.
request_schema(name) == [ref |-> <<name, "">>]

response_schema(name) == [ref |-> <<name, "#response">>]

\* attrs.asdict of a command: its fields.
asdict(self) == Restrict(self, DOMAIN self \ {"kind"})

\* A codec operation's result: what it returned or raised, and the calls it
\* made to validate on the way.
WithCalls(r, made) == [ok |-> r.ok, value |-> r.value, error |-> r.error, calls |-> made]

\* `accepts` is what the caller's validate does with the request: return, or
\* raise.  Each call is logged with the verdict it got.
to_request(self, accepts) ==
    LET name == CommandName(self.kind)
        req == ("cmd" :> name) @@ asdict(self)
        made == <<[instance |-> req, schema |-> request_schema(name),
                   accepted |-> accepts]>>
    IN  IF accepts
        THEN WithCalls(Returned(req), made)
        ELSE WithCalls(Raised("ValidationError"), made)

\* TestCase.run: the command handed to the runner.
TestCase_run(self, seq) == Run(seq, without_expected_results(self))

\* exceptions.VersionMismatch.check(got)
VersionMismatch_check(got) == got = ProtocolVersion

\* Started(**instance): implementation and version, and version's validator.
Started(kwargs) ==
    IF ~Binds(kwargs, {"implementation", "version"}, {})
    THEN Raised("TypeError")
    ELSE IF ~VersionMismatch_check(kwargs.version)
    THEN Raised("VersionMismatch")
    ELSE Returned([kind |-> "Started",
                   implementation |-> kwargs.implementation,
                   version |-> kwargs.version])

StartedDialect(kwargs) ==
    IF Binds(kwargs, {"ok"}, {})
    THEN Returned([kind |-> "StartedDialect", ok |-> kwargs.ok])
    ELSE Raised("TypeError")

\* Stop's Response, lambda: None, takes no argument.
StopResponse(kwargs) ==
    IF Binds(kwargs, {}, {})
    THEN Returned([kind |-> "NoneType"])
    ELSE Raised("TypeError")

\* Response(**instance) of each command class.
Response(cls, instance) ==
    CASE cls = "Start" -> Started(instance)
      [] cls = "Dialect" -> StartedDialect(instance)
      [] cls = "Run" -> Returned(case_result(instance))
      [] cls = "Stop" -> StopResponse(instance)

\* json.loads of bytes: bytes that are no UTF-8, UTF-16 or UTF-32 text raise
\* UnicodeDecodeError out of the decoding, text that is no JSON document raises
\* JSONDecodeError, and a document parses to its value.
json_loads(bytes) ==
    CASE bytes.kind = "undecodable" -> Raised("UnicodeDecodeError")
      [] bytes.kind = "malformed" -> Raised("JSONDecodeError")
      [] bytes.kind = "document" -> Returned(bytes.value)

\* `accepts` is what the caller's validate does with the parsed instance.
from_response(cls, bytes, accepts) ==
    LET parsed == json_loads(bytes)
        made == <<[instance |-> parsed.value,
                   schema |-> response_schema(CommandName(cls)),
                   accepted |-> accepts]>>
    IN  IF ~parsed.ok
        THEN WithCalls(Raised(IF parsed.error = "JSONDecodeError"
                              THEN "_ProtocolError" ELSE parsed.error), <<>>)
        ELSE IF ~accepts
        THEN WithCalls(Raised("ValidationError"), made)
        ELSE WithCalls(Response(cls, parsed.value), made)

(***************************************************************************)
(* What an implementation may answer                                       *)
(***************************************************************************)
Seqs == {1}

Implementations == {"impl"}

Expecteds == SeqsUpTo({True, False, None}, MaxResults)

\* Per-test payloads of a Run response's results.
WireTests == {[valid |-> True], [valid |-> False], [skipped |-> True], [errored |-> True]}

StartInstances ==
    {Entry("implementation", i) @@ Entry("version", v) @@ Entry("ready", r) :
       i \in Maybe({"info"}), v \in Maybe({ProtocolVersion, ProtocolVersion + 1}),
       r \in Maybe(JsonBool)}

DialectInstances == {Entry("ok", o) : o \in Maybe(JsonBool)}

StopInstances == {EmptyDict, [ok |-> True]}

RunInstances ==
    {Entry("errored", e) @@ Entry("skipped", s) @@ rest :
       e \in Maybe(JsonBool), s \in Maybe(JsonBool),
       rest \in {[seq |-> q, results |-> rs] :
                   q \in Seqs, rs \in SeqsUpTo(WireTests, MaxResults)}
             \cup {[seq |-> q, context |-> [message |-> "boom"]] : q \in Seqs}
             \cup {[seq |-> q] : q \in Seqs}
             \cup {[seq |-> q, message |-> "unsupported"] : q \in Seqs}}

Instances(cls) ==
    CASE cls = "Start" -> StartInstances
      [] cls = "Dialect" -> DialectInstances
      [] cls = "Run" -> RunInstances
      [] cls = "Stop" -> StopInstances

NoBytes == [kind |-> "none"]

RawResponses(cls) ==
    {[kind |-> "undecodable"], [kind |-> "malformed"]}
    \cup {[kind |-> "document", value |-> i] : i \in Instances(cls)}

\* Everything TestResult.from_dict may be handed.
TestPayloads ==
    {Entry("skipped", s) @@ Entry("errored", e) @@ Entry("valid", v)
       @@ Entry("message", m) @@ Entry("context", c) :
       s \in Maybe(JsonBool), e \in Maybe(JsonBool), v \in Maybe(JsonBool),
       m \in Maybe({"why"}), c \in Maybe({[message |-> "boom"]})}

\* The case outcomes whose tallies a run-level summary folds.
FoldOutcomes ==
    {CaseErrored_uncaught("impl", 1, e, EmptyDict).value :
       e \in SeqsUpTo({None}, MaxFoldTests)}
    \cup {CaseSkipped([implementation |-> "impl", seq |-> 1, expected |-> e]).value :
            e \in SeqsUpTo({None}, MaxFoldTests)}
    \cup {CaseResult([implementation |-> "impl", seq |-> 1, results |-> rs,
                      expected |-> [i \in 1..Len(rs) |-> False]]).value :
            rs \in SeqsUpTo({TestResult(True)}, MaxFoldTests)}

\* Their tallies.
FoldTallies == {unsuccessful(o) : o \in FoldOutcomes}

(***************************************************************************)
(* One stream's exchanges                                                  *)
(***************************************************************************)
Idle ==
    /\ pc = "idle"
    /\ cmd = None
    /\ tc = <<>>
    /\ request = <<>>
    /\ raw = NoBytes
    /\ calls = <<>>
    /\ error = None
    /\ response = Unset
    /\ outcome = Unset

Init ==
    /\ Idle
    /\ data = EmptyDict
    /\ result = Unset
    /\ delivered = <<>>
    /\ summary = Zero

\* The runner sends a command: to_request under the runner's validate.
Request(self, case, accepts) ==
    LET r == to_request(self, accepts)
    IN  /\ cmd' = self.kind
        /\ tc' = case
        /\ request' = IF r.ok THEN <<r.value>> ELSE <<>>
        /\ calls' = r.calls
        /\ error' = r.error
        /\ pc' = IF r.ok THEN "sent" ELSE "raised"
        /\ UNCHANGED <<raw, response, outcome, data, result, delivered, summary>>

SendStart ==
    /\ pc = "idle"
    /\ \E accepts \in BOOLEAN : Request(START_V1, <<>>, accepts)

SendDialect ==
    /\ pc = "idle"
    /\ \E accepts \in BOOLEAN : Request(Dialect("draft"), <<>>, accepts)

SendStop ==
    /\ pc = "idle"
    /\ \E accepts \in BOOLEAN : Request(STOP, <<>>, accepts)

\* TestCase.run, and the runner's to_request of the command.
SendRun ==
    /\ pc = "idle"
    /\ \E case \in TestCases, seq \in Seqs, accepts \in BOOLEAN :
         Request(TestCase_run(case, seq), <<case>>, accepts)

\* The request goes to the transport; the command object is done with.
Transmit ==
    /\ pc = "sent"
    /\ pc' = "awaiting"
    /\ tc' = <<>>
    /\ request' = <<>>
    /\ calls' = <<>>
    /\ UNCHANGED <<cmd, raw, error, response, outcome, data, result,
                   delivered, summary>>

\* The response bytes arrive and the runner decodes them: from_response.
Receive ==
    /\ pc = "awaiting"
    /\ \E bytes \in RawResponses(cmd), accepts \in BOOLEAN :
         LET r == from_response(cmd, bytes, accepts)
         IN  /\ raw' = bytes
             /\ calls' = r.calls
             /\ error' = r.error
             /\ response' = r.value
             /\ pc' = IF r.ok THEN "decoded" ELSE "raised"
    /\ UNCHANGED <<cmd, tc, request, outcome, data, result, delivered, summary>>

\* The runner calls what Run.from_response returned with the implementation's
\* name and the expected values it holds.
Attach ==
    /\ pc = "decoded"
    /\ cmd = "Run"
    /\ \E implementation \in Implementations, expected \in Expecteds :
         LET r == apply_case_result(response, implementation, expected)
         IN  /\ outcome' = r.value
             /\ error' = r.error
             /\ pc' = IF r.ok THEN "reported" ELSE "raised"
    /\ UNCHANGED <<cmd, tc, request, raw, calls, response, data, result,
                   delivered, summary>>

\* The runner gives up on a Run exchange (no answer in time, or an answer that
\* failed to decode): CaseErrored.uncaught.
Uncaught ==
    /\ cmd = "Run"
    /\ \/ pc = "awaiting"
       \/ pc = "raised" /\ raw # NoBytes /\ response = Unset
    /\ \E implementation \in Implementations, seq \in Seqs, expected \in Expecteds :
         outcome' = CaseErrored_uncaught(implementation, seq, expected,
                                         [error |-> error]).value
    /\ pc' = "reported"
    /\ error' = None
    /\ raw' = NoBytes
    /\ calls' = <<>>
    /\ UNCHANGED <<cmd, tc, request, response, data, result, delivered, summary>>

\* The exchange is over; the stream takes its next one.
Finish ==
    /\ pc \in {"decoded", "reported", "raised"}
    /\ pc' = "idle"
    /\ cmd' = None
    /\ tc' = <<>>
    /\ request' = <<>>
    /\ raw' = NoBytes
    /\ calls' = <<>>
    /\ error' = None
    /\ response' = Unset
    /\ outcome' = Unset
    /\ UNCHANGED <<data, result, delivered, summary>>

Next ==
    \/ SendStart
    \/ SendDialect
    \/ SendRun
    \/ SendStop
    \/ Transmit
    \/ Receive
    \/ Attach
    \/ Uncaught
    \/ Finish

Spec == Init /\ [][Next]_vars

(***************************************************************************)
(* TestResult.from_dict on its own                                         *)
(***************************************************************************)
InitFromDict ==
    /\ Idle
    /\ data \in TestPayloads
    /\ result = Unset
    /\ delivered = <<>>
    /\ summary = Zero

FromDict ==
    /\ result = Unset
    /\ result' = TestResult_from_dict(data)
    /\ UNCHANGED <<exchangeVars, data, delivered, summary>>

NextFromDict == FromDict

SpecFromDict == InitFromDict /\ [][NextFromDict]_vars

(***************************************************************************)
(* The run-level summary                                                   *)
(***************************************************************************)
\* A stream delivers a case outcome and its tally is added to the summary.
Deliver ==
    /\ Len(delivered) < MaxCases
    /\ \E tally \in FoldTallies :
         /\ summary' = Unsuccessful_add(summary, tally)
         /\ delivered' = Append(delivered, tally)
    /\ UNCHANGED <<exchangeVars, data, result>>

NextFold == Deliver

SpecFold == Init /\ [][NextFold]_vars

(***************************************************************************)
(* Properties                                                              *)
(***************************************************************************)
\* The number of indices of seq that satisfy P.
Count(seq, P(_)) == Cardinality({i \in 1..Len(seq) : P(seq[i])})

IsFailedPair(pair) == pair[2]

IsErrored(test) == test.errored

IsSkipped(test) == test.skipped

\* from_response has run on raw (and nothing has run since).
AfterFromResponse ==
    /\ raw.kind # "none"
    /\ \/ pc = "decoded"
       \/ pc = "raised" /\ response.kind = "unset"

\* A case outcome was decoded from a Run response and given its expected list.
DecodedOutcome ==
    /\ pc = "reported"
    /\ raw.kind = "document"

ErroredFlag == Truthy(Get(raw.value, "errored", False))

SkippedFlag == Truthy(Get(raw.value, "skipped", False))

\* C1: unsuccessful() of a CaseResult counts the pairs compare() marks failed,
\* the errored test results and the skipped test results (stated here for
\* results and expected of one length).
C1_UnsuccessfulCounts ==
    (outcome.kind = "CaseResult" /\ Len(outcome.results) = Len(outcome.expected)) =>
        unsuccessful(outcome) =
            Unsuccessful(Count(compare(outcome), IsFailedPair),
                         Count(outcome.results, IsErrored),
                         Count(outcome.results, IsSkipped))

RunPayloadFits(instance) ==
    LET rest == Restrict(instance, DOMAIN instance \ {"errored", "skipped"})
    IN  IF Truthy(Get(instance, "errored", False))
        THEN Binds(rest, {"seq", "context"}, {"caught"})
        ELSE IF Truthy(Get(instance, "skipped", False))
        THEN Binds(rest, {"seq"}, {"message", "issue_url"})
        ELSE /\ DOMAIN rest = {"seq", "results"}
             /\ \A i \in 1..Len(rest.results) : TestResult_from_dict(rest.results[i]).ok

C3_LengthsAgree ==
    DecodedOutcome =>
        /\ Len(outcome.results) = Len(outcome.expected)
        /\ outcome.kind = "CaseResult" => Len(compare(outcome)) = Len(outcome.expected)

\* C4: the i-th pair of compare() is (results[i], f), f being true exactly when
\* results[i] is a plain result (neither skipped nor errored), expected[i] is
\* not null and expected[i] differs from results[i].valid.
C4_CompareRule ==
    outcome.kind = "CaseResult" =>
        LET pairs == compare(outcome)
        IN  /\ Len(pairs) = Min(Len(outcome.results), Len(outcome.expected))
            /\ \A i \in 1..Len(pairs) :
                  /\ pairs[i][1] = outcome.results[i]
                  /\ pairs[i][2] <=>
                        /\ outcome.results[i].kind = "TestResult"
                        /\ outcome.expected[i] \in JsonBool
                        /\ outcome.expected[i] # outcome.results[i].valid
                  /\ outcome.expected[i] = None => ~pairs[i][2]
                  /\ outcome.results[i].kind \in {"SkippedTest", "ErroredTest"}
                        => ~pairs[i][2]

C4_Witness ==
    /\ outcome.kind = "CaseResult"
    /\ Len(compare(outcome)) = 3
    /\ \E i, j, k \in 1..3 :
          /\ compare(outcome)[i][2]
          /\ outcome.expected[j] = None /\ outcome.results[j] = TestResult(False)
          /\ outcome.results[k].skipped /\ outcome.expected[k] = True

\* validate accepted the instance from_response parsed.
ValidateAccepted == Len(calls) = 1 /\ calls[1].accepted

\* C5: a Start response with version 1 and ready true decodes to a Started
\* value; one with another version fails with VersionMismatch and one with
\* ready false with ImplementationNotReady, neither yielding a Started value
\* (stated for payloads that carry implementation and version, and that
\* validate accepted).
C5_StartDecoding ==
    (/\ AfterFromResponse
     /\ cmd = "Start"
     /\ raw.kind = "document"
     /\ ValidateAccepted
     /\ {"implementation", "version"} \subseteq DOMAIN raw.value) =>
        LET version == raw.value.version
            ready == Get(raw.value, "ready", None)
        IN  /\ (version = ProtocolVersion /\ ready = True) =>
                  /\ pc = "decoded"
                  /\ response.kind = "Started"
            /\ version # ProtocolVersion =>
                  /\ pc = "raised"
                  /\ response.kind = "unset"
                  /\ error \in {"VersionMismatch", "ImplementationNotReady"}
                  /\ ready # False => error = "VersionMismatch"
            /\ ready = False =>
                  /\ pc = "raised"
                  /\ response.kind = "unset"
                  /\ error \in {"VersionMismatch", "ImplementationNotReady"}
                  /\ version = ProtocolVersion => error = "ImplementationNotReady"

\* The test cases that differ from case in their tests' valid values at most.
ValidVariants(case) ==
    {[case EXCEPT !.tests = [i \in 1..Len(case.tests) |->
                               [case.tests[i] EXCEPT !.valid = valids[i]]]] :
       valids \in [1..Len(case.tests) -> {True, False, None}]}

\* C6: the Run request built for a test case has, at every index i, a test
\* entry without a valid key that keeps the description and the instance of
\* test i; and every test case that differs only in valid values gives the
\* same request.
C6_NoExpectedOnTheWire ==
    (pc = "sent" /\ cmd = "Run") =>
        LET case == tc[1]
            sent == request[1]
        IN  /\ Len(sent.case.tests) = Len(case.tests)
            /\ \A i \in 1..Len(case.tests) :
                  /\ "valid" \notin DOMAIN sent.case.tests[i]
                  /\ sent.case.tests[i].description = case.tests[i].description
                  /\ sent.case.tests[i].instance = case.tests[i].instance
            /\ \A other \in ValidVariants(case) :
                  to_request(TestCase_run(other, sent.seq), TRUE).value = sent

C6_Witness ==
    /\ pc = "sent"
    /\ cmd = "Run"
    /\ Len(tc[1].tests) = 2
    /\ tc[1].tests[1].description # tc[1].tests[2].description
    /\ tc[1].tests[1].valid = True
    /\ tc[1].tests[2].valid = False
    /\ tc[1].tests[2].comment # None

\* C7: a CaseErrored or CaseSkipped, decoded or built by CaseErrored.uncaught,
\* has one errored-in-case (skipped-in-case) marker per expected value, and
\* its unsuccessful() counts them all as errored (as skipped): failed is 0
\* and total is len(expected).
C7_WholeCaseOutcomes ==
    /\ outcome.kind = "CaseErrored" =>
          /\ Len(outcome.results) = Len(outcome.expected)
          /\ \A i \in 1..Len(outcome.results) : outcome.results[i] = in_errored_case
          /\ unsuccessful(outcome) = Unsuccessful(0, Len(outcome.expected), 0)
          /\ total(unsuccessful(outcome)) = Len(outcome.expected)
    /\ outcome.kind = "CaseSkipped" =>
          /\ Len(outcome.results) = Len(outcome.expected)
          /\ \A i \in 1..Len(outcome.results) : outcome.results[i] = in_skipped_case
          /\ unsuccessful(outcome) = Unsuccessful(0, 0, Len(outcome.expected))
          /\ total(unsuccessful(outcome)) = Len(outcome.expected)

C7_Witness ==
    /\ outcome.kind = "CaseErrored"
    /\ ~outcome.caught
    /\ Len(outcome.expected) = 3
    /\ Len(outcome.results) = 3

\* The fold of a sequence of tallies, from the zero tally.
RECURSIVE Fold(_)
Fold(tallies) ==
    IF tallies = <<>>
    THEN Zero
    ELSE Unsuccessful_add(Fold(SubSeq(tallies, 1, Len(tallies) - 1)),
                          tallies[Len(tallies)])

RECURSIVE SumOfTotals(_)
SumOfTotals(tallies) ==
    IF tallies = <<>> THEN 0 ELSE total(Head(tallies)) + SumOfTotals(Tail(tallies))

\* The orders in which n outcomes may arrive, for every n up to MaxCases.
Orders ==
    [n \in 0..MaxCases |->
       {p \in [1..n -> 1..n] : \A i, j \in 1..n : p[i] = p[j] => i = j}]

\* C8: addition of tallies is associative and commutative with the zero tally
\* as identity, total is the sum of the three counters, and the summary is
\* what folding the delivered tallies in any other order gives.
C8_FoldOrderIrrelevant ==
    LET seen == {delivered[i] : i \in 1..Len(delivered)} \cup {summary, Zero}
    IN  /\ \A a, b, c \in seen :
              /\ Unsuccessful_add(a, b) = Unsuccessful_add(b, a)
              /\ Unsuccessful_add(a, Zero) = a
              /\ total(Unsuccessful_add(a, b)) = total(a) + total(b)
              /\ Unsuccessful_add(Unsuccessful_add(a, b), c)
                    = Unsuccessful_add(a, Unsuccessful_add(b, c))
        /\ total(summary) = summary.failed + summary.errored + summary.skipped
        /\ total(summary) = SumOfTotals(delivered)
        /\ \A p \in Orders[Len(delivered)] :
              Fold([i \in 1..Len(delivered) |-> delivered[p[i]]]) = summary

C8_Witness ==
    /\ Len(delivered) = 3
    /\ delivered[1] # delivered[2]
    /\ delivered[2] # delivered[3]
    /\ delivered[1] # delivered[3]
    /\ summary.failed > 0
    /\ summary.errored > 0
    /\ summary.skipped > 0

\* C9: from_response returns a value only after the bytes parsed and validate
\* accepted the parsed instance against the command's response schema; bytes
\* that do not parse fail with a protocol error before validate is called; a
\* validate failure constructs nothing; and to_request returns the
\* {cmd: name, ...fields} mapping only after validate accepted it against the
\* request schema.
C9_GatedByValidate ==
    /\ AfterFromResponse =>
          /\ pc = "decoded" =>
                /\ raw.kind = "document"
                /\ calls = <<[instance |-> raw.value,
                              schema |-> response_schema(CommandName(cmd)),
                              accepted |-> TRUE]>>
          /\ raw.kind # "document" =>
                /\ pc = "raised"
                /\ error = "_ProtocolError"
                /\ calls = <<>>
                /\ response.kind = "unset"
          /\ (Len(calls) = 1 /\ ~calls[1].accepted) =>
                /\ pc = "raised"
                /\ response.kind = "unset"
    /\ pc = "sent" =>
          /\ request[1].cmd = CommandName(cmd)
          /\ calls = <<[instance |-> request[1],
                        schema |-> request_schema(CommandName(cmd)),
                        accepted |-> TRUE]>>
    /\ (pc = "raised" /\ raw.kind = "none") => request = <<>>

\* What C9 says apart from the class of the error for bytes that do not parse:
\* those fail before validate is called, with a protocol error or with the
\* UnicodeDecodeError of the decoding.
GatedApartFromErrorClass ==
    AfterFromResponse =>
        /\ pc = "decoded" => (raw.kind = "document" /\ ValidateAccepted)
        /\ raw.kind # "document" =>
              /\ pc = "raised"
              /\ error \in {"_ProtocolError", "UnicodeDecodeError"}
              /\ calls = <<>>
              /\ response.kind = "unset"
        /\ (Len(calls) = 1 /\ ~calls[1].accepted) =>
              /\ pc = "raised"
              /\ error = "ValidationError"
              /\ response.kind = "unset"

\* C10: TestResult.from_dict gives a SkippedTest for a payload with skipped
\* true, also when errored is true as well; otherwise an ErroredTest for one
\* with errored true; otherwise a TestResult with the payload's valid (stated
\* for payloads whose other keys are those of the variant: message for a
\* skipped test, context for an errored one, valid for a plain one).
C10_PerTestPriority ==
    "ok" \in DOMAIN result =>
        LET flags == {"skipped", "errored"}
            others == DOMAIN data \ flags
        IN  IF Truthy(Get(data, "skipped", False))
            THEN others \subseteq {"message"} =>
                   result.ok /\ result.value.kind = "SkippedTest"
            ELSE IF Truthy(Get(data, "errored", False))
            THEN others \subseteq {"context"} =>
                   result.ok /\ result.value.kind = "ErroredTest"
            ELSE others = {"valid"} =>
                   result.ok /\ result.value = TestResult(data.valid)

====
